---- MODULE Spec2Model ----
(***************************************************************************)
(* A model of fears_md: the Population class of population.py (genotype    *)
(* space, mutation matrix, the abm update step, run_abm, simulate) and the *)
(* helper Experiment.gen_neighbors of experiment.py, the construction of an *)
(* Experiment with its template sweeps, and Experiment.set_ramp_ud.        *)
(*                                                                         *)
(* Real numbers are kept exact: a count is an integer, a quotient is a     *)
(* reduced fraction [n, d], and a rate (a float in the program) is kept by *)
(* its sign, which is all that numpy's Poisson sampler looks at to decide  *)
(* between raising (rate < 0), returning 0 (rate = 0) and returning any    *)
(* natural number (rate > 0).                                              *)
(***************************************************************************)
EXTENDS Integers, Sequences, FiniteSets, TLC

\* ------------------------------------------------------------------ bounds
\* Largest allele count of a configuration (genotype counts up to 2^MaxAllele).
MaxAllele == 3

\* ------------------------------------------------------------- arithmetic
\* Python's None for a numeric attribute.
None == -1

RECURSIVE Pow2(_)
Pow2(k) == IF k <= 0 THEN 1 ELSE 2 * Pow2(k - 1)

\* int(np.log2(n)) and int(math.log(n,2)) for n >= 1: the exponent of the
\* largest power of two not above n.
RECURSIVE FloorLog2(_)
FloorLog2(n) == IF n <= 1 THEN 0 ELSE 1 + FloorLog2(n \div 2)

RECURSIVE GCD(_, _)
GCD(a, b) == IF b = 0 THEN a ELSE GCD(b, a % b)

Abs(x) == IF x < 0 THEN -x ELSE x

Sign(x) == IF x < 0 THEN -1 ELSE IF x = 0 THEN 0 ELSE 1

\* A float quotient x / s of two integers, exact: a reduced fraction with a
\* positive denominator; x / 0 is numpy's nan (0/0) or inf (d = 0, n # 0).
Frac(x, s) ==
    IF s = 0 THEN [n |-> Sign(x), d |-> 0]
    ELSE LET g == GCD(Abs(x), Abs(s))
         IN  [n |-> Sign(s) * (x \div g), d |-> Abs(s) \div g]

FracAdd(a, b) ==
    IF a.d = 0 THEN a ELSE IF b.d = 0 THEN b
    ELSE Frac(a.n * b.d + b.n * a.d, a.d * b.d)

FracOne == [n |-> 1, d |-> 1]

FracZero == [n |-> 0, d |-> 1]

RECURSIVE SumTo(_, _)
\* sum of f[0] .. f[k-1] for an integer-valued f
SumTo(f, k) == IF k <= 0 THEN 0 ELSE f[k - 1] + SumTo(f, k - 1)

RECURSIVE FracSumTo(_, _)
FracSumTo(f, k) == IF k <= 0 THEN FracZero ELSE FracAdd(f[k - 1], FracSumTo(f, k - 1))

\* ---------------------------------------------------------- genotype space
\* bit m of x
BitAt(x, m) == (x \div Pow2(m)) % 2

RECURSIVE Xor(_, _)
\* Python's a ^ b on integers, which behave as two's complement numbers of
\* unbounded width (-1 is all ones)
Xor(a, b) ==
    IF a = 0 /\ b = 0 THEN 0
    ELSE IF a = -1 /\ b = -1 THEN 0
    ELSE IF (a = -1 /\ b = 0) \/ (a = 0 /\ b = -1) THEN -1
    ELSE (((a % 2) + (b % 2)) % 2) + (2 * Xor(a \div 2, b \div 2))

\* Python's 1 << m
Shl1(m) == Pow2(m)

gen_neighbors_or(p, genotype) ==
    [k \in 1..p.n_allele |->
        IF BitAt(genotype, k - 1) = 1 THEN genotype ELSE genotype + Shl1(k - 1)]

\* Population.gen_neighbors: [genotype ^ (1 << m) for m in range(n_allele)]
gen_neighbors(p, genotype) ==
    [k \in 1..p.n_allele |-> Xor(genotype, Shl1(k - 1))]

\* Experiment.gen_neighbors(pop, genotype)
Experiment_gen_neighbors(p, genotype) ==
    [k \in 1..p.n_allele |-> Xor(genotype, Shl1(k - 1))]

RECURSIVE Bin(_)
\* bin(num)[2:] as a sequence of bits, most significant first
Bin(num) == IF num <= 1 THEN <<num>> ELSE Append(Bin(num \div 2), num % 2)

RECURSIVE Zfill(_, _)
\* str.zfill(pad): left-pad with zeros up to pad characters
Zfill(s, pad) == IF Len(s) >= pad THEN s ELSE Zfill(<<0>> \o s, pad)

\* Population.int_to_binary: pad comes from self.n_genotype
int_to_binary(p, num) == Zfill(Bin(num), FloorLog2(p.n_genotype))

\* Population.hammingDistance: the assert fails on strings of unequal length
hammingDistance(s1, s2) ==
    IF Len(s1) # Len(s2) THEN [raised |-> TRUE, val |-> 0]
    ELSE [raised |-> FALSE,
          val |-> Cardinality({k \in 1..Len(s1) : s1[k] # s2[k]})]

\* ---------------------------------------------------------- mutation model
Genotypes(N) == 0..(N - 1)

\* the raw matrix of lines 490-494
raw_trans_mat(p, N) ==
    [mm \in Genotypes(N) |-> [nn \in Genotypes(N) |->
        hammingDistance(int_to_binary(p, mm), int_to_binary(p, nn))]]

random_mutations_keep_far(p, N) ==
    LET raw == raw_trans_mat(p, N)
        sums == [mm \in Genotypes(N) |->
                    SumTo([nn \in Genotypes(N) |-> raw[mm][nn].val], N)]
    IN  [raised |-> \E mm, nn \in Genotypes(N) : raw[mm][nn].raised,
         mat |-> [mm \in Genotypes(N) |-> [nn \in Genotypes(N) |->
                    Frac(raw[mm][nn].val, sums[nn])]]]

\* Population.random_mutations: distances above 1 are zeroed, then the matrix
\* is divided by the vector of its row sums; numpy broadcasts that vector along
\* the last axis, so entry [mm, nn] is divided by the sum of row nn.
random_mutations(p, N) ==
    LET raw == raw_trans_mat(p, N)
        cut == [mm \in Genotypes(N) |-> [nn \in Genotypes(N) |->
                    IF raw[mm][nn].val > 1 THEN 0 ELSE raw[mm][nn].val]]
        sums == [mm \in Genotypes(N) |-> SumTo(cut[mm], N)]
    IN  [raised |-> \E mm, nn \in Genotypes(N) : raw[mm][nn].raised,
         mat |-> [mm \in Genotypes(N) |-> [nn \in Genotypes(N) |->
                    Frac(cut[mm][nn], sums[nn])]]]

\* --------------------------------------------------------------- exceptions
\* np.random.poisson on a negative rate (np.random.choice on a bad p likewise)
ValueErrorRate == "ValueError: lam < 0"

\* avg_counts += counts on shapes that do not broadcast
ValueErrorShape == "ValueError: operands could not be broadcast together"

\* raise Warning(...) of check_stop_cond
StopNotReached == "Warning: Stop condition not reached"

\* raise Warning(...) of initialize_population
Mismatch == "Warning: Genotype/allele number mismatch"

\* the assert of hammingDistance
\* the read of a local variable that was never assigned
UnboundLocalError == "UnboundLocalError"

AssertionError == "AssertionError"

\* ------------------------------------------------------------- population
\* PopParams.__init__: the defaults of the attributes the model follows.
\* A rate is kept by its sign (death_rate 0.1 and mut_rate 1e-9 are positive);
\* init_counts = <<>> is None; death_model "None" is None; stop_condition None
\* is falsy and kept as FALSE.
PopParamsDefaults ==
    [death_rate |-> 1, mut_rate |-> 1,
     death_model |-> "None",
     constant_pop |-> FALSE, use_carrying_cap |-> TRUE,
     init_counts |-> <<>>,
     n_allele |-> None, n_genotype |-> None,
     n_timestep |-> 1000, timestep_scale |-> 1,
     passage |-> FALSE, passage_time |-> 24, dilution |-> 40,
     max_cells |-> 1000000000,
     stop_condition |-> FALSE, plot |-> TRUE, n_sims |-> 10, debug |-> FALSE]

PopParams_setattr(kwargs) ==
    [k \in (DOMAIN PopParamsDefaults) \cup (DOMAIN kwargs) |->
        IF k \in DOMAIN kwargs THEN kwargs[k] ELSE PopParamsDefaults[k]]

\* PopParams.__init__(**kwargs): a keyword overrides the default of the
\* attribute of the same name; kwargs is a record.
PopParams(kwargs) ==
    [k \in DOMAIN PopParamsDefaults |->
        IF k \in DOMAIN kwargs THEN kwargs[k] ELSE PopParamsDefaults[k]]

\* the attributes a constructed Population has besides those of PopParams:
\* counts (the trajectory matrix), and what construction ended with.
ZeroVec(N) == [g \in Genotypes(N) |-> 0]

ZeroMat(T, N) == [t \in 0..(T - 1) |-> ZeroVec(N)]

\* np.floor(x * m / s) of an integer count, exact
FloorScale(x, m, s) == (x * m) \div s

\* Population.initialize_population. lib_genotypes is the number of distinct
\* genotypes of the pharmacodynamic library (read from a data file).
initialize_population(p, lib_genotypes) ==
    LET ng == IF p.n_genotype = None THEN lib_genotypes ELSE p.n_genotype
        na == IF p.n_allele = None THEN FloorLog2(ng) ELSE p.n_allele
        q  == [k \in DOMAIN p \cup {"counts", "raised"} |->
                 IF k = "n_genotype" THEN ng
                 ELSE IF k = "n_allele" THEN na
                 ELSE IF k = "counts" THEN <<>>
                 ELSE IF k = "raised" THEN ""
                 ELSE p[k]]
        ic == IF q.init_counts = <<>>
              THEN [g \in Genotypes(ng) |-> IF g = 0 THEN 1000000 ELSE 0]
              ELSE q.init_counts
        tot == SumTo(ic, ng)
    IN  IF na # FloorLog2(ng)
        THEN [q EXCEPT !.raised = Mismatch]
        ELSE IF q.constant_pop
        THEN [q EXCEPT !.counts = ZeroMat(q.n_timestep, ng),
                       !.init_counts =
                            [g \in Genotypes(ng) |-> FloorScale(ic[g], q.max_cells, tot)],
                       !.use_carrying_cap = FALSE]
        ELSE [q EXCEPT !.counts = ZeroMat(q.n_timestep, ng),
                       !.init_counts = ic]

\* ------------------------------------------------------------------ state
VARIABLES
    kwargs,         \* the keyword arguments the Population was constructed with, or
                    \* those of the last call of reset_drug_conc_curve
    pop,            \* the Population object: its attributes (in the sweep experiments
                    \* the Population objects, in the order they were made)
    pc,             \* where the program is
    exc,            \* the exception that ended it ("" when none)
    P,              \* run_abm's mutation matrix (<<>> before it is built)
    nb,             \* the last gen_neighbors call: its argument and results
    abm,            \* the locals of the running abm call
    counts,         \* run_abm's trajectory, a sequence of rows
    mm,             \* run_abm's timestep counter
    calls,          \* run_abm's calls of abm so far, in order: timestep, input, result
    avg_counts,     \* simulate's running sum of trajectories
    fixation_time,  \* simulate's list of terminal timesteps
    i,              \* simulate's replicate index
    ret,            \* what the last call of run_abm or simulate returned (<<>> before)
    replicates,     \* the trajectories run_abm has returned to simulate, in order
    exper,          \* the Experiment object: its constructor's arguments and attributes
    env             \* what the external collaborators supply: the genotype count of
                    \* the pharmacodynamic library, the fittest genotype at max_dose

vars == <<env, kwargs, pop, pc, exc, P, nb, abm, counts, mm, calls, avg_counts, fixation_time, i, ret,
         replicates, exper>>

NoCall == [genotype |-> 0, out |-> <<>>, exp_out |-> <<>>]

NoAbm == [active |-> FALSE]

NoExperiment == [made |-> 0]

\* ------------------------------------------- construction and genotype space
\* keyword arguments of the constructions explored: every pair of a genotype
\* count and an allele count, given or left to the default
GenoKwargs ==
    { [n_genotype |-> ng, n_allele |-> na, n_timestep |-> 2] :
        ng \in 1..Pow2(MaxAllele), na \in 0..MaxAllele }
    \cup { [n_genotype |-> ng, n_timestep |-> 2] : ng \in 1..Pow2(MaxAllele) }
    \cup { [n_allele |-> na, n_timestep |-> 2] : na \in 0..MaxAllele }
    \cup { [n_timestep |-> 2] }

\* genotype counts of the pharmacodynamic library file
LibGenotypeCounts == {4}

InitGeno ==
    /\ env \in { [lib_genotypes |-> n, fittest |-> 0] : n \in LibGenotypeCounts }
    /\ kwargs \in GenoKwargs
    /\ pop = PopParams(kwargs)
    /\ pc = "new"
    /\ exc = ""
    /\ P = <<>>
    /\ nb = NoCall
    /\ abm = NoAbm
    /\ counts = <<>>
    /\ mm = 0
    /\ calls = <<>>
    /\ avg_counts = <<>>
    /\ fixation_time = <<>>
    /\ i = 0
    /\ ret = <<>>
    /\ replicates = <<>>
    /\ exper = NoExperiment

\* Population.__init__ from the PopParams attributes on: initialize_population
Construct ==
    /\ pc = "new"
    /\ LET q == initialize_population(pop, env.lib_genotypes)
       IN  /\ pop' = q
           /\ pc' = IF q.raised # "" THEN "raised" ELSE "ready"
           /\ exc' = q.raised
    /\ UNCHANGED <<env, kwargs, P, nb, abm, counts, mm, calls, avg_counts, fixation_time, i, ret, replicates, exper>>

\* a call of random_mutations(self.n_genotype), as run_abm makes it
CallRandomMutations ==
    /\ pc = "ready"
    /\ LET r == random_mutations(pop, pop.n_genotype)
       IN  /\ P' = IF r.raised THEN <<>> ELSE r.mat
           /\ pc' = IF r.raised THEN "raised" ELSE "has_P"
           /\ exc' = IF r.raised THEN AssertionError ELSE ""
    /\ UNCHANGED <<env, kwargs, pop, nb, abm, counts, mm, calls, avg_counts, fixation_time, i, ret, replicates, exper>>

\* a call of gen_neighbors(genotype), and of Experiment.gen_neighbors on the
\* same population and genotype
CallGenNeighbors ==
    /\ pc = "ready"
    /\ \E g \in Genotypes(pop.n_genotype) :
         nb' = [genotype |-> g,
                out |-> gen_neighbors(pop, g),
                exp_out |-> Experiment_gen_neighbors(pop, g)]
    /\ pc' = "nb_ret"
    /\ UNCHANGED <<env, kwargs, pop, exc, P, abm, counts, mm, calls, avg_counts, fixation_time, i, ret, replicates, exper>>

\* the genotypes outside the space of A alleles that gen_neighbors is called
\* with: negative ones, and those from 2^A on
OutsideGenotypes(A) == ((-2)..(-1)) \cup (Pow2(A)..Pow2(MaxAllele + 1))

\* a call of gen_neighbors(genotype) with a genotype outside the space: the
\* list comprehension of line 441 is evaluated as for any other integer
CallGenNeighborsOutside ==
    /\ pc = "ready"
    /\ \E g \in OutsideGenotypes(pop.n_allele) :
         nb' = [genotype |-> g,
                out |-> gen_neighbors(pop, g),
                exp_out |-> Experiment_gen_neighbors(pop, g)]
    /\ pc' = "nb_outside_ret"
    /\ UNCHANGED <<env, kwargs, pop, exc, P, abm, counts, mm, calls, avg_counts, fixation_time, i, ret, replicates, exper>>

NextGeno == Construct \/ CallRandomMutations \/ CallGenNeighbors \/ CallGenNeighborsOutside

SpecGeno == InitGeno /\ [][NextGeno]_vars

\* ---------------------------------------------------- properties: genotype space
\* the number of bits in which genotypes a and b differ, among the A alleles
BitDistance(a, b, A) == Cardinality({m \in 0..(A - 1) : BitAt(a, m) # BitAt(b, m)})

ValidSpace == pop.n_allele >= 1 /\ pop.n_genotype = Pow2(pop.n_allele)

RowSum(mat, row, N) == FracSumTo(mat[row], N)

\* C3: for N = 2^A with A >= 1, random_mutations(N) returns a matrix whose rows
\* each sum to 1, whose diagonal is zero, and whose entry (i, j) is non-zero
\* exactly when i and j are at Hamming distance 1, and then equals 1/A.
C3_MutationMatrix ==
    (ValidSpace /\ (pc = "has_P" \/ exc = AssertionError)) =>
        /\ pc = "has_P"
        /\ \A a \in Genotypes(pop.n_genotype) :
             /\ RowSum(P, a, pop.n_genotype) = FracOne
             /\ P[a][a] = FracZero
             /\ \A b \in Genotypes(pop.n_genotype) :
                  /\ (P[a][b] # FracZero) <=> (BitDistance(a, b, pop.n_allele) = 1)
                  /\ (P[a][b] # FracZero) => (P[a][b] = Frac(1, pop.n_allele))

C3_Witness == pc = "has_P" /\ ValidSpace /\ pop.n_allele = MaxAllele

\* C4: constructing a Population whose n_genotype is not 2^n_allele fails with
\* the configuration error, before the trajectory is allocated.
C4_MismatchRejected ==
    (/\ pc # "new"
     /\ {"n_genotype", "n_allele"} \subseteq DOMAIN kwargs
     /\ kwargs.n_genotype # Pow2(kwargs.n_allele)) =>
        (pc = "raised" /\ exc = Mismatch /\ pop.counts = <<>>)

\* C10: gen_neighbors(g) returns exactly A pairwise distinct genotypes of the
\* space, each one bit away from g; Experiment.gen_neighbors returns the same.
C10_Neighbors ==
    (pc = "nb_ret" /\ ValidSpace) =>
        /\ Len(nb.out) = pop.n_allele
        /\ \A k \in 1..Len(nb.out) :
             /\ nb.out[k] \in Genotypes(pop.n_genotype)
             /\ BitDistance(nb.genotype, nb.out[k], pop.n_allele) = 1
             /\ \A l \in 1..Len(nb.out) : (k # l) => (nb.out[k] # nb.out[l])
        /\ nb.exp_out = nb.out

\* C10: a call of gen_neighbors changes no attribute of the population.
C10_NeighborsPure == [][(pc' = "nb_ret") => (pop' = pop /\ P' = P)]_vars

C10_Witness ==
    pc = "nb_ret" /\ ValidSpace /\ pop.n_allele = MaxAllele /\ nb.genotype = 5

\* C23: gen_neighbors rejects a genotype outside the space: for every allele
\* count A and every g >= 2^A or g < 0 the call fails with an error and returns
\* no list of neighbours.
C23_OutsideGenotypeRejected ==
    (nb.genotype < 0 \/ nb.genotype >= Pow2(pop.n_allele)) =>
        (pc = "raised" /\ nb.out = <<>>)

\* what the call returns instead: for each allele the genotype with that bit
\* flipped, none of them the genotype itself
OutsideGenotypeNeighbors ==
    (pc = "nb_outside_ret") =>
        /\ exc = ""
        /\ Len(nb.out) = pop.n_allele
        /\ \A k \in 1..Len(nb.out) :
             /\ nb.out[k] # nb.genotype
             /\ \A m \in 0..MaxAllele :
                  (BitAt(nb.out[k], m) # BitAt(nb.genotype, m)) <=> (m = k - 1)
             /\ (nb.genotype < 0) => (nb.out[k] < 0)
             /\ (nb.genotype >= Pow2(pop.n_allele)) => (nb.out[k] >= Pow2(pop.n_allele))

\* --------------------------------------------------------- the update step
\* Largest value numpy's Poisson sampler returns in the model.
MaxDraw == 2
\* Largest count of one genotype in a vector handed to abm.
MaxCount == 2
\* Largest total of a vector handed to abm.
MaxPop == 2
\* Largest timestep index handed to abm.
MaxStep == 2

\* What the cast of a non-finite float to int64 gives (ceil(x).astype('int') of
\* nan or +-inf is undefined in C): INT64_MIN on x86-64; on AArch64 0 for nan and
\* the extreme of the sign for +-inf. The extremes are scaled down to values the
\* model can compute with.
NonFiniteLow == -1000

NonFiniteHigh == 1000

Builds == {"x86_64", "aarch64"}

CastNonFinite(sign, build) ==
    IF build = "x86_64" THEN NonFiniteLow
    ELSE IF sign > 0 THEN NonFiniteHigh
    ELSE IF sign < 0 THEN NonFiniteLow ELSE 0

Min2(a, b) == IF a < b THEN a ELSE b

Max2(a, b) == IF a > b THEN a ELSE b

RECURSIVE SumOver(_, _)
\* the sum of f over the finite set S
SumOver(f, S) ==
    IF S = {} THEN 0
    ELSE LET x == CHOOSE y \in S : TRUE IN f[x] + SumOver(f, S \ {x})

\* int(c) of the float c = x / d: truncation towards zero
TruncDiv(x, d) == IF x >= 0 THEN x \div d ELSE -((-x) \div d)

\* np.ceil(x * m / s) for s # 0, exact
CeilScale(x, m, s) ==
    LET num == IF s > 0 THEN x * m ELSE -(x * m)
        den == Abs(s)
    IN  -((-num) \div den)

passage_cells_at_zero(p, m, c) ==
    IF (m * p.timestep_scale) % p.passage_time = 0 /\ p.passage
    THEN [g \in DOMAIN c |-> TruncDiv(c[g], p.dilution)]
    ELSE c

passage_cells_no_floor(p, m, c) ==
    IF (m * p.timestep_scale) % p.passage_time = 0 /\ m # 0 /\ p.passage
    THEN [g \in DOMAIN c |-> -((-c[g]) \div p.dilution)]
    ELSE c

\* Population.passage_cells: at a passage timestep the counts are divided by
\* the dilution and each cast with int(); "counts[counts<1] == 0" compares and
\* assigns nothing.
passage_cells(p, m, c) ==
    IF (m * p.timestep_scale) % p.passage_time = 0 /\ m # 0 /\ p.passage
    THEN [g \in DOMAIN c |-> TruncDiv(c[g], p.dilution)]
    ELSE c

\* np.random.poisson(lam) on a vector of rates kept by sign: it raises
\* ValueError when a rate is negative, returns 0 where the rate is 0 and any
\* natural number where it is positive. The draws explored are the vectors that
\* total at most MaxDraw.
PoissonRaises(lam) == \E g \in DOMAIN lam : lam[g] < 0

PoissonDraws(lam) ==
    { d \in [DOMAIN lam -> 0..MaxDraw] :
        /\ \A g \in DOMAIN lam : (lam[g] = 0) => (d[g] = 0)
        /\ SumOver(d, DOMAIN lam) <= MaxDraw }

\* the sign vectors fitness.gen_abm_fl_md returns (the fitness module decides
\* them from the timestep and the counts): a growth rate, never negative, in the
\* default death model, and a signed net growth in the pharmacodynamic one. One
\* sign for the even and one for the odd genotypes.
FitSigns(p) == IF p.death_model = "pharmacodynamic" THEN {-1, 0, 1} ELSE {0, 1}

FitVectors(p, N) ==
    { [g \in Genotypes(N) |-> IF g % 2 = 0 THEN a ELSE b] : a, b \in FitSigns(p) }

\* astype(np.uint8)
Uint8(x) == x % 256

\* the destinations np.random.choice may return for source genotype g: those
\* with positive probability in column g of the matrix
Support(mat, g, N) == { h \in Genotypes(N) : mat[h][g].d # 0 /\ mat[h][g].n > 0 }

\* np.random.choice raises ValueError when p holds a nan or does not sum to 1
ChoiceRaises(mat, g, N) ==
    \/ \E h \in Genotypes(N) : mat[h][g].d = 0
    \/ FracSumTo([h \in Genotypes(N) |-> mat[h][g]], N) # FracOne

\* the ways n_mut mutants spread over the destinations
Spreads(S, n_mut) ==
    IF S = {} THEN {}
    ELSE { d \in [S -> 0..n_mut] : SumOver(d, S) = n_mut }

Bincount_presence(d, k) == IF \E h \in DOMAIN d : Uint8(h) = k /\ d[h] > 0 THEN 1 ELSE 0

\* np.bincount(mutations, minlength=N) at index k, after the uint8 cast
Bincount(d, k) == SumOver(d, { h \in DOMAIN d : Uint8(h) = k })

\* lines 632-640: the daughters are added, and under constant_pop the vector is
\* scaled to max_cells and each entry rounded up
AbmFinish(p, ct, dc, build) ==
    LET pre == [g \in DOMAIN ct |-> ct[g] + dc[g]]
        tot == SumOver(pre, DOMAIN pre)
    IN  IF ~p.constant_pop THEN pre
        ELSE IF tot = 0
        THEN [g \in DOMAIN pre |-> CastNonFinite(Sign(pre[g]) * Sign(p.max_cells), build)]
        ELSE [g \in DOMAIN pre |-> CeilScale(pre[g], p.max_cells, tot)]

\* the builds that differ on this return: those of the cast of a non-finite
\* value, which happens when the last iteration leaves a zero total under
\* constant_pop
NeededBuilds(p, ct, dc, g) ==
    IF /\ p.constant_pop
       /\ g + 1 = p.n_genotype
       /\ SumOver(ct, DOMAIN ct) + SumOver(dc, DOMAIN dc) = 0
    THEN Builds ELSE {"x86_64"}


\* lines 613-614: negative counts are set to zero
Clamp(ct) == [g \in DOMAIN ct |-> Max2(ct[g], 0)]

\* passage_cells returns the array it was given unless it dilutes, and then it
\* returns a new one (np.divide, np.array); "counts_t = counts" binds a second
\* name to the same array
PassageKeepsArray(p, m) == ~((m * p.timestep_scale) % p.passage_time = 0 /\ m # 0 /\ p.passage)

DeathKeepsArray_in_place(kept) == kept

\* "counts_t = counts_t + dead_cells" and "counts_t = counts_t - poisson(...)"
\* bind counts_t to a new array, whatever it was bound to
DeathKeepsArray(kept) == FALSE

\* abm raises: nothing is returned (row is the caller's array, the row of the
\* trajectory handed in)
AbmRaise(m, c, f, kind) ==
    /\ abm' = [active |-> FALSE, mm |-> m, counts |-> c, fit_land |-> f, raised |-> kind,
               row |-> c]
    /\ pc' = "raised"
    /\ exc' = kind

\* abm reaches its mutation loop with these locals
AbmToLoop(m, c, f, base, ct, dc, drawn, turnover) ==
    /\ abm' = [active |-> TRUE, mm |-> m, counts |-> c, fit_land |-> f,
               base |-> base, post_death |-> ct, born |-> dc,
               drawn |-> drawn, turnover |-> turnover,
               counts_t |-> Clamp(ct), daughter_counts |-> dc,
               genotype |-> 0, pre |-> <<>>, out |-> <<>>, raised |-> "",
               shared |-> DeathKeepsArray(PassageKeepsArray(pop, m)),
               row |-> IF DeathKeepsArray(PassageKeepsArray(pop, m)) THEN Clamp(ct) ELSE c]
    /\ pc' = "abm_loop"
    /\ exc' = ""

\* line 604: the debug printing is done at this timestep
DebugPrints(p, m) == p.debug /\ (m % 10) = 0

\* lines 598-610, the default death model. This branch assigns no dead_cells,
\* the local that line 609 prints.
AbmDefault(m, c, f, base) ==
    LET lamD == [g \in DOMAIN base |-> Sign(base[g]) * pop.death_rate * pop.timestep_scale]
    IN  IF PoissonRaises(lamD) THEN AbmRaise(m, c, f, ValueErrorRate)
        ELSE \E dead \in PoissonDraws(lamD) :
               LET ct == [g \in DOMAIN base |-> base[g] - dead[g]]
                   lamB == [g \in DOMAIN base |-> Sign(ct[g]) * f[g] * pop.timestep_scale]
               IN  IF PoissonRaises(lamB) THEN AbmRaise(m, c, f, ValueErrorRate)
                   ELSE \E dc \in PoissonDraws(lamB) :
                          IF DebugPrints(pop, m) THEN AbmRaise(m, c, f, UnboundLocalError)
                          ELSE AbmToLoop(m, c, f, base, ct, dc, dc, dead)

AbmPharmacodynamic_unsigned(m, c, f, base) ==
    LET lamF == [g \in DOMAIN base |-> Sign(base[g]) * Abs(f[g] * pop.timestep_scale)]
        lamD == [g \in DOMAIN base |-> Sign(base[g]) * pop.death_rate * pop.timestep_scale]
    IN  IF PoissonRaises(lamF) \/ PoissonRaises(lamD) THEN AbmRaise(m, c, f, ValueErrorRate)
        ELSE \E x \in PoissonDraws(lamF), turnover \in PoissonDraws(lamD) :
               LET ct == [g \in DOMAIN base |-> base[g] - turnover[g]]
               IN  AbmToLoop(m, c, f, base, ct, x, x, turnover)

\* lines 580-596, the pharmacodynamic death model; every local that lines
\* 605-609 print is assigned here
AbmPharmacodynamic(m, c, f, base) ==
    LET lamF == [g \in DOMAIN base |-> Sign(base[g]) * Abs(f[g] * pop.timestep_scale)]
        lamD == [g \in DOMAIN base |-> Sign(base[g]) * pop.death_rate * pop.timestep_scale]
    IN  IF PoissonRaises(lamF) \/ PoissonRaises(lamD) THEN AbmRaise(m, c, f, ValueErrorRate)
        ELSE \E x \in PoissonDraws(lamF), turnover \in PoissonDraws(lamD) :
               LET delta_cells == [g \in DOMAIN base |-> IF f[g] < 0 THEN -x[g] ELSE x[g]]
                   dead_cells == [g \in DOMAIN base |-> Min2(delta_cells[g], 0) - turnover[g]]
                   ct == [g \in DOMAIN base |-> base[g] + dead_cells[g]]
                   dc == [g \in DOMAIN base |-> Max2(delta_cells[g], 0)]
               IN  AbmToLoop(m, c, f, base, ct, dc, x, turnover)

\* abm(mm, n_genotype, P, counts) up to its mutation loop (lines 568-614): the
\* fitness vector, passaging, the death and birth draws, the clamp
AbmBody(m, c) ==
    \E f \in FitVectors(pop, pop.n_genotype) :
        LET base == passage_cells(pop, m, c)
        IN  IF pop.death_model = "pharmacodynamic"
            THEN AbmPharmacodynamic(m, c, f, base)
            ELSE AbmDefault(m, c, f, base)

\* one iteration of the mutation loop (lines 616-630); the last one goes on to
\* add the daughters, normalise and return (lines 632-640)
AbmMutate ==
    /\ pc = "abm_loop"
    /\ LET g == abm.genotype
           N == pop.n_genotype
           lam == Sign(abm.daughter_counts[g]) * pop.mut_rate * pop.timestep_scale * pop.n_allele
       IN  IF lam < 0 \/ ChoiceRaises(P, g, N)
           THEN /\ abm' = [abm EXCEPT !.active = FALSE, !.raised = ValueErrorRate]
                /\ pc' = "raised"
                /\ exc' = ValueErrorRate
           ELSE \E n_mut \in (IF lam = 0 THEN {0} ELSE 0..MaxDraw) :
                \E d \in Spreads(Support(P, g, N), n_mut) :
                \E build \in NeededBuilds(pop, abm.counts_t, abm.daughter_counts, g) :
                  LET dc == [abm.daughter_counts EXCEPT ![g] = @ - n_mut]
                      ct == [k \in Genotypes(N) |-> abm.counts_t[k] + Bincount(d, k)]
                  IN  IF g + 1 < N
                      THEN /\ abm' = [abm EXCEPT !.daughter_counts = dc, !.counts_t = ct,
                                                 !.row = IF abm.shared THEN ct ELSE @,
                                                 !.genotype = g + 1]
                           /\ pc' = "abm_loop"
                           /\ exc' = ""
                      ELSE /\ abm' = [abm EXCEPT !.daughter_counts = dc, !.counts_t = ct,
                                                 !.active = FALSE,
                                                 !.pre = [k \in Genotypes(N) |-> ct[k] + dc[k]],
                                                 !.row = IF abm.shared
                                                         THEN [k \in Genotypes(N) |-> ct[k] + dc[k]]
                                                         ELSE @,
                                                 !.out = AbmFinish(pop, ct, dc, build)]
                           /\ pc' = "abm_ret"
                           /\ exc' = ""
    /\ UNCHANGED <<env, kwargs, pop, P, nb, counts, mm, calls, avg_counts, fixation_time, i, ret, replicates, exper>>

\* ------------------------------------------------ single calls of abm
\* the values given for death_model: the default, the pharmacodynamic model,
\* and a name abm does not know
DeathModels == {"None", "pharmacodynamic", "pharmacodynamics"}

\* the populations whose update step is exercised
AbmKwargs ==
    { [n_allele |-> na, n_genotype |-> Pow2(na), n_timestep |-> 3,
       death_model |-> dm, constant_pop |-> cp, max_cells |-> 4,
       passage |-> pg, passage_time |-> 2, dilution |-> 2, timestep_scale |-> 1] :
        na \in {1, 2}, dm \in DeathModels,
        cp \in BOOLEAN, pg \in BOOLEAN }
    \cup
    { [n_allele |-> na, n_genotype |-> Pow2(na), n_timestep |-> 3,
       death_model |-> dm, constant_pop |-> FALSE, max_cells |-> 4,
       passage |-> TRUE, passage_time |-> 2, dilution |-> 2, timestep_scale |-> 2] :
        na \in {1, 2}, dm \in {"None", "pharmacodynamic"} }
    \cup
    { [n_allele |-> na, n_genotype |-> Pow2(na), n_timestep |-> 3,
       death_model |-> dm, constant_pop |-> FALSE, max_cells |-> 4,
       passage |-> FALSE, passage_time |-> 2, dilution |-> 2, timestep_scale |-> 1,
       debug |-> TRUE] :
        na \in {1, 2}, dm \in {"None", "pharmacodynamic"} }

CountVectors(N) ==
    { c \in [Genotypes(N) -> 0..MaxCount] : SumOver(c, Genotypes(N)) <= MaxPop }

InitAbm ==
    /\ env \in { [lib_genotypes |-> n, fittest |-> 0] : n \in LibGenotypeCounts }
    /\ kwargs \in AbmKwargs
    /\ pop = initialize_population(PopParams(kwargs), env.lib_genotypes)
    /\ pc = "idle"
    /\ exc = ""
    /\ P = random_mutations(pop, pop.n_genotype).mat
    /\ nb = NoCall
    /\ abm = NoAbm
    /\ counts = <<>>
    /\ mm = 0
    /\ calls = <<>>
    /\ avg_counts = <<>>
    /\ fixation_time = <<>>
    /\ i = 0
    /\ ret = <<>>
    /\ replicates = <<>>
    /\ exper = NoExperiment

\* abm called on a vector of non-negative counts at some timestep
CallAbm ==
    /\ pc = "idle"
    /\ \E m \in 0..MaxStep, c \in CountVectors(pop.n_genotype) : AbmBody(m, c)
    /\ UNCHANGED <<env, kwargs, pop, P, nb, counts, mm, calls, avg_counts, fixation_time, i, ret, replicates, exper>>

NextAbm == CallAbm \/ AbmMutate

SpecAbm == InitAbm /\ [][NextAbm]_vars

\* --------------------------------------------------- properties: the update step
NonNegative(v) == \A g \in DOMAIN v : v[g] >= 0

Total(v) == SumOver(v, DOMAIN v)

PassageStep(m) ==
    pop.passage /\ m # 0 /\ (m * pop.timestep_scale) % pop.passage_time = 0

\* C1: the vector abm returns has no negative entry, in both death models and
\* for every outcome of the draws.
C1_NoNegativeCount == (pc = "abm_ret") => NonNegative(abm.out)

\* C2: under constant_pop, for a non-extinct vector before the rescaling, the
\* sum of the vector abm returns differs from max_cells by at most 1.
C2_ConstantPopSum ==
    (pc = "abm_ret" /\ pop.constant_pop /\ NonNegative(abm.pre) /\ Total(abm.pre) > 0) =>
        Abs(Total(abm.out) - pop.max_cells) <= 1

\* C8: at a passage timestep the vector the death and birth draws are applied
\* to is, entry by entry, the floor of the input count over the dilution.
C8_PassageFloor ==
    (pc \in {"abm_loop", "abm_ret"} /\ PassageStep(abm.mm) /\ NonNegative(abm.counts)) =>
        \A g \in DOMAIN abm.counts :
            /\ abm.base[g] * pop.dilution <= abm.counts[g]
            /\ abm.counts[g] < (abm.base[g] + 1) * pop.dilution
            /\ abm.post_death[g] <= abm.base[g]

C8_Witness ==
    /\ pc = "abm_ret"
    /\ PassageStep(abm.mm)
    /\ abm.counts[0] = 1 /\ abm.base[0] = 0
    /\ abm.counts[1] = 1 /\ abm.base[1] = 0

\* C13: a call of abm leaves the array it was handed, the mutation matrix and
\* every attribute of the population as they were, however it ends.
C13_AbmFrame ==
    [][(pc' \in {"abm_loop", "abm_ret", "raised"}) =>
          /\ abm'.row = abm'.counts
          /\ pop' = pop
          /\ P' = P]_vars

C13_Witness ==
    /\ pc = "abm_ret"
    /\ PassageKeepsArray(pop, abm.mm)
    /\ pop.constant_pop
    /\ abm.out # abm.counts
    /\ abm.post_death # abm.counts

\* the vector a dilution leaves
Diluted(v) == [g \in DOMAIN v |-> v[g] \div pop.dilution]

C19_PostDeathNonNegative ==
    (pop.death_model # "pharmacodynamic") =>
        /\ (pc \in {"abm_loop", "abm_ret"}) => NonNegative(abm.post_death)
        /\ (pc = "raised") => (exc # ValueErrorRate)

\* what bounds the post-death count: the deaths are at least 0 and at most the
\* largest value the sampler returns
PostDeathBounds ==
    (pop.death_model # "pharmacodynamic" /\ pc \in {"abm_loop", "abm_ret"}) =>
        \A g \in DOMAIN abm.base :
            /\ abm.post_death[g] <= abm.base[g]
            /\ abm.post_death[g] >= abm.base[g] - MaxDraw
            /\ (abm.base[g] = 0) => (abm.post_death[g] = 0)

\* C20: in the pharmacodynamic death model a genotype of negative fitness has
\* no daughters and its count after the death phase is max(0, count - drawn
\* magnitude - turnover deaths); a genotype of non-negative fitness has the
\* drawn magnitude as daughters and loses the turnover deaths only.
C20_Pharmacodynamic ==
    (pop.death_model = "pharmacodynamic" /\ pc \in {"abm_loop", "abm_ret"}) =>
        \A g \in DOMAIN abm.base :
            IF abm.fit_land[g] < 0
            THEN /\ abm.born[g] = 0
                 /\ Clamp(abm.post_death)[g]
                      = Max2(0, abm.base[g] - abm.drawn[g] - abm.turnover[g])
            ELSE /\ abm.born[g] = abm.drawn[g]
                 /\ Clamp(abm.post_death)[g] = Max2(0, abm.base[g] - abm.turnover[g])

C20_Witness ==
    /\ pc = "abm_ret"
    /\ pop.death_model = "pharmacodynamic"
    /\ \E g, h \in DOMAIN abm.base :
          /\ abm.fit_land[g] < 0 /\ abm.drawn[g] > 0
          /\ abm.fit_land[h] > 0 /\ abm.drawn[h] > 0

\* C24: debug only adds printing: with debug=True abm raises nothing that it
\* does not raise with debug=False, at every timestep (multiples of 10
\* included) and in both death models, and it returns what the draws determine.
C24_DebugOnlyPrints ==
    pop.debug =>
        /\ exc # UnboundLocalError
        /\ (pc = "abm_ret") =>
              \E build \in Builds :
                  abm.out = AbmFinish(pop, abm.counts_t, abm.daughter_counts, build)

\* where debug does only add printing: in the pharmacodynamic death model, and
\* at the timesteps that are no multiple of 10
DebugPrintsOnly ==
    (exc = UnboundLocalError) =>
        /\ pop.debug
        /\ pop.death_model # "pharmacodynamic"
        /\ (abm.mm % 10) = 0

\* in the default death model the call at a multiple of 10 ends in the error
\* whenever it gets as far as the printing
DebugRaisesInDefault ==
    (pop.debug /\ pop.death_model # "pharmacodynamic" /\ pc \in {"abm_loop", "abm_ret"}) =>
        (abm.mm % 10) # 0

\* C26: the mutation phase neither creates nor destroys cells: whatever the
\* mutation draws, the vector abm holds before the constant-population scaling
\* sums to the clamped post-death counts plus the daughters drawn in the birth
\* phase.
C26_MutationConservesCells ==
    (pc = "abm_ret") =>
        Total(abm.pre) = Total(Clamp(abm.post_death)) + Total(abm.born)

C26_Witness ==
    /\ pc = "abm_ret"
    /\ \E g \in DOMAIN abm.born : abm.daughter_counts[g] = abm.born[g] - 2
    /\ \E k \in DOMAIN abm.born : abm.counts_t[k] = Clamp(abm.post_death)[k] + 2

\* a death_model that is neither the default nor 'pharmacodynamic'
UnknownDeathModel == pop.death_model \notin {"None", "pharmacodynamic"}

\* C11: a Population with an unrecognized death_model is rejected before any
\* update step; abm never runs a death and birth branch for it.
C11_UnknownDeathModelRejected ==
    UnknownDeathModel => (pc \notin {"abm_loop", "abm_ret"} /\ abm = NoAbm)

\* what abm does for an unrecognized death_model: the default model's branch
UnknownDeathModelRunsDefault ==
    (UnknownDeathModel /\ pc \in {"abm_loop", "abm_ret"}) =>
        /\ pop.raised = ""
        /\ \A g \in DOMAIN abm.base :
              /\ abm.post_death[g] <= abm.base[g]
              /\ abm.born[g] >= 0
              /\ (abm.fit_land[g] = 0 \/ abm.post_death[g] = 0) => abm.born[g] = 0

\* ------------------------------------------------------ run_abm and simulate
\* Largest n_timestep of a simulated population.
MaxT == 3
\* Largest n_sims of a simulated population.
MaxSims == 2
\* Largest n_timestep + n_sims of a simulated population.
MaxWork == 4

\* numpy's argmax: the first index of the largest entry
ArgMax(v) ==
    CHOOSE g \in DOMAIN v :
        /\ \A h \in DOMAIN v : v[h] <= v[g]
        /\ \A h \in DOMAIN v : (h < g) => (v[h] < v[g])

Rows(c) == Cardinality(DOMAIN c)

AppendRow_twice(c, row) == [t \in 0..(Rows(c) + 1) |-> IF t < Rows(c) THEN c[t] ELSE row]

\* np.append(counts, [counts_t], axis=0)
AppendRow(c, row) == [t \in 0..Rows(c) |-> IF t < Rows(c) THEN c[t] ELSE row]

check_stop_cond_no_raise(p, fittest, counts_t, m) ==
    [stop_cond |-> (fittest = ArgMax(counts_t)) \/ m >= p.n_timestep, raised |-> FALSE]

\* Population.check_stop_cond: fittest is gen_fit_land(max_dose).argmax(), from
\* the external fitness module. The raise comes before the assignment that
\* follows it.
check_stop_cond(p, fittest, counts_t, m) ==
    [stop_cond |-> fittest = ArgMax(counts_t), raised |-> m >= p.n_timestep]

first_row_carried(p) == IF counts = <<>> THEN p.init_counts ELSE counts[Rows(counts) - 1]

\* "counts[0,:] = self.init_counts": row 0 of the new trajectory array takes the
\* values of init_counts
first_row(p) == p.init_counts

\* run_abm up to its loop (lines 654-668 and 680-681)
RunStart ==
    LET r == random_mutations(pop, pop.n_genotype)
    IN  IF r.raised
        THEN /\ pc' = "raised" /\ exc' = AssertionError
             /\ UNCHANGED <<P, counts, mm, calls, ret>>
        ELSE /\ P' = r.mat
             /\ mm' = 0
             /\ calls' = <<>>
             /\ counts' = IF pop.stop_condition
                          THEN [t \in 0..0 |-> first_row(pop)]
                          ELSE [t \in 0..(pop.n_timestep - 1) |->
                                   IF t = 0 THEN first_row(pop) ELSE ZeroVec(pop.n_genotype)]
             /\ ret' = <<>>
             /\ pc' = "run_loop"
             /\ exc' = ""

\* the head of run_abm's loop: the call of abm (lines 670-671, 683-684), or the
\* return (line 687)
RunLoop ==
    /\ pc = "run_loop"
    /\ IF pop.stop_condition \/ mm < pop.n_timestep - 1
       THEN /\ AbmBody(mm, counts[mm])
            /\ calls' = Append(calls, [mm |-> mm, input |-> counts[mm], out |-> <<>>])
            /\ UNCHANGED ret
       ELSE /\ pc' = "run_ret"
            /\ ret' = [counts |-> counts, mm |-> mm]
            /\ UNCHANGED <<abm, exc, calls>>
    /\ UNCHANGED <<env, kwargs, pop, P, nb, counts, mm, avg_counts, fixation_time, i, replicates, exper>>

\* abm has returned to run_abm: the row is stored and the counter advanced
\* (lines 672-677, 684-685). In stop-condition mode counts always has two
\* dimensions, so the row is appended and mm incremented, and check_stop_cond
\* decides between another iteration, the return and the raise.
RunAfterAbm ==
    /\ pc = "abm_ret"
    /\ mm' = mm + 1
    /\ calls' = [calls EXCEPT ![Len(calls)].out = abm.out]
    /\ abm' = NoAbm
    /\ IF pop.stop_condition
       THEN LET r == check_stop_cond(pop, env.fittest, abm.out, mm + 1)
            IN  /\ counts' = AppendRow(counts, abm.out)
                /\ IF r.raised
                   THEN pc' = "raised" /\ exc' = StopNotReached /\ UNCHANGED ret
                   ELSE IF r.stop_cond
                   THEN /\ pc' = "run_ret" /\ exc' = ""
                        /\ ret' = [counts |-> counts', mm |-> mm']
                   ELSE pc' = "run_loop" /\ exc' = "" /\ UNCHANGED ret
       ELSE /\ counts' = [counts EXCEPT ![mm + 1] = abm.out]
            /\ pc' = "run_loop"
            /\ UNCHANGED <<exc, ret>>
    /\ UNCHANGED <<env, kwargs, pop, P, nb, avg_counts, fixation_time, i, replicates, exper>>

\* simulate up to its loop (lines 702-703)
SimStart ==
    /\ pc = "idle"
    /\ avg_counts' = ZeroMat(pop.n_timestep, pop.n_genotype)
    /\ fixation_time' = <<>>
    /\ i' = 0
    /\ replicates' = <<>>
    /\ pc' = "sim_loop"
    /\ UNCHANGED <<env, kwargs, pop, exc, P, nb, abm, counts, mm, calls, ret, exper>>

\* the head of simulate's loop: the next replicate's run_abm is entered (line
\* 708), or the sum is divided by n_sims, stored in self.counts and returned
\* (lines 716-718)
SimLoop ==
    /\ pc = "sim_loop"
    /\ IF i < pop.n_sims
       THEN /\ RunStart
            /\ UNCHANGED pop
       ELSE LET avg == [t \in DOMAIN avg_counts |-> [g \in DOMAIN avg_counts[t] |->
                            Frac(avg_counts[t][g], pop.n_sims)]]
            IN  /\ pop' = [pop EXCEPT !.counts = avg]
                /\ ret' = [avg_counts |-> avg, fixation_time |-> fixation_time]
                /\ pc' = "sim_ret"
                /\ UNCHANGED <<exc, P, counts, mm, calls>>
    /\ UNCHANGED <<env, kwargs, nb, abm, avg_counts, fixation_time, i, replicates, exper>>

\* avg_counts += counts: numpy adds in place when counts has as many rows as
\* avg_counts or a single row, and raises ValueError otherwise
CanBroadcast(c, avg) == Rows(c) = Rows(avg) \/ Rows(c) = 1

\* run_abm has returned to simulate (lines 709-714); plot_timecourse is external
SimAfterRun ==
    /\ pc = "run_ret"
    /\ IF CanBroadcast(ret.counts, avg_counts)
       THEN /\ avg_counts' = [t \in DOMAIN avg_counts |-> [g \in DOMAIN avg_counts[t] |->
                                avg_counts[t][g]
                                + (IF Rows(ret.counts) = 1 THEN ret.counts[0][g]
                                   ELSE ret.counts[t][g])]]
            /\ fixation_time' = Append(fixation_time, ret.mm)
            /\ replicates' = Append(replicates, ret.counts)
            /\ i' = i + 1
            /\ pc' = "sim_loop"
            /\ exc' = ""
       ELSE /\ pc' = "raised"
            /\ exc' = ValueErrorShape
            /\ UNCHANGED <<avg_counts, fixation_time, i, replicates>>
    /\ UNCHANGED <<env, kwargs, pop, P, nb, abm, counts, mm, calls, ret, exper>>

\* the simulated populations: two genotypes, each death model, and for the
\* default death model also constant_pop and passaging
RunModes ==
    { [death_model |-> "None", constant_pop |-> FALSE, passage |-> FALSE],
      [death_model |-> "pharmacodynamic", constant_pop |-> FALSE, passage |-> FALSE],
      [death_model |-> "None", constant_pop |-> TRUE, passage |-> FALSE],
      [death_model |-> "None", constant_pop |-> FALSE, passage |-> TRUE] }

RunInitCounts == { (0 :> 1 @@ 1 :> 0), (0 :> 0 @@ 1 :> 1) }

WorkPairs == { ts \in (1..MaxT) \X (1..MaxSims) : ts[1] + ts[2] <= MaxWork }

RunKwargs ==
    { [n_allele |-> 1, n_genotype |-> 2, n_timestep |-> ts[1], n_sims |-> ts[2],
       stop_condition |-> sc, init_counts |-> ic, plot |-> FALSE,
       death_model |-> md.death_model, constant_pop |-> md.constant_pop,
       passage |-> md.passage, max_cells |-> 3, passage_time |-> 1, dilution |-> 2] :
        ts \in WorkPairs, sc \in BOOLEAN,
        ic \in RunInitCounts, md \in RunModes }

InitRun ==
    /\ env \in { [lib_genotypes |-> n, fittest |-> f] : n \in LibGenotypeCounts, f \in Genotypes(2) }
    /\ kwargs \in RunKwargs
    /\ pop = initialize_population(PopParams(kwargs), env.lib_genotypes)
    /\ pc = "idle"
    /\ exc = ""
    /\ P = <<>>
    /\ nb = NoCall
    /\ abm = NoAbm
    /\ counts = <<>>
    /\ mm = 0
    /\ calls = <<>>
    /\ avg_counts = <<>>
    /\ fixation_time = <<>>
    /\ i = 0
    /\ ret = <<>>
    /\ replicates = <<>>
    /\ exper = NoExperiment

NextRun == SimStart \/ SimLoop \/ RunLoop \/ AbmMutate \/ RunAfterAbm \/ SimAfterRun

SpecRun == InitRun /\ [][NextRun]_vars

\* ----------------------------------------------- properties: run_abm and simulate
Fixed == ~pop.stop_condition

\* run_abm has ended, by returning or by an exception raised inside it
RunEnded == pc = "run_ret" \/ (pc = "raised" /\ exc # ValueErrorShape)

\* the calls of abm made so far were made in order, each on the row the one
\* before it returned (the first on init_counts)
CallsInOrder ==
    \A k \in 1..Len(calls) :
        /\ calls[k].mm = k - 1
        /\ calls[k].input = (IF k = 1 THEN pop.init_counts ELSE calls[k - 1].out)

\* what a fixed-horizon run returns
FixedReturn ==
    /\ Len(calls) = pop.n_timestep - 1
    /\ CallsInOrder
    /\ Rows(ret.counts) = pop.n_timestep
    /\ ret.counts[0] = pop.init_counts
    /\ \A k \in 1..Len(calls) : ret.counts[k] = calls[k].out
    /\ ret.mm = pop.n_timestep - 1

\* C5: with the stop condition disabled run_abm calls abm exactly n_timestep - 1
\* times, on timesteps 0 .. n_timestep - 2 in order, each call on the row the
\* previous one wrote, and returns n_timestep rows, row 0 being init_counts,
\* with terminal timestep n_timestep - 1.
C5_FixedHorizon == (Fixed /\ RunEnded) => (pc = "run_ret" /\ FixedReturn)

\* what holds of the fixed-horizon runs that do return
FixedHorizonOnReturn == (Fixed /\ pc = "run_ret") => FixedReturn

\* C6: with the stop condition enabled run_abm ends after at most n_timestep
\* update steps, either returning a terminal timestep <= n_timestep and a last
\* row whose most numerous genotype is the fittest one, or raising the
\* stop-condition-not-reached error.
C6_StopCondition ==
    (pop.stop_condition /\ RunEnded) =>
        /\ Len(calls) <= pop.n_timestep
        /\ \/ /\ pc = "run_ret"
              /\ ret.mm <= pop.n_timestep
              /\ ArgMax(ret.counts[ret.mm]) = env.fittest
           \/ /\ pc = "raised"
              /\ exc = StopNotReached

\* what holds of the stop-condition runs that do not end inside abm
StopConditionOutsideAbm ==
    (pop.stop_condition /\ RunEnded /\ exc # ValueErrorRate) =>
        /\ Len(calls) <= pop.n_timestep
        /\ \/ /\ pc = "run_ret"
              /\ ret.mm < pop.n_timestep
              /\ Rows(ret.counts) = ret.mm + 1
              /\ ArgMax(ret.counts[ret.mm]) = env.fittest
           \/ /\ pc = "raised"
              /\ exc = StopNotReached
              /\ Len(calls) = pop.n_timestep

\* a stop-condition replicate has gone past the horizon without fixation
HorizonExceeded ==
    /\ pop.stop_condition
    /\ calls # <<>>
    /\ mm >= pop.n_timestep
    /\ Rows(counts) = mm + 1
    /\ ArgMax(counts[mm]) # env.fittest

\* C7 as stated: past the horizon without fixation, run_abm still returns the
\* trajectory computed so far and the terminal timestep.
C7_StillReturns ==
    HorizonExceeded => (pc # "raised" /\ ret # <<>> /\ ret.counts = counts /\ ret.mm = mm)

\* C7, amended: past the horizon without fixation, check_stop_cond raises the
\* Warning exception; run_abm returns nothing to simulate, no terminal timestep
\* is recorded for the replicate, and simulate does not return either.
C7_RaisesPastHorizon ==
    HorizonExceeded =>
        /\ pc = "raised"
        /\ exc = StopNotReached
        /\ ret = <<>>
        /\ Len(fixation_time) = i
        /\ Len(replicates) = i

C7_Witness == HorizonExceeded /\ pc = "raised" /\ pop.n_timestep = 2 /\ i = 1

\* the element-wise sum of the first k trajectories at row t, genotype g
RECURSIVE SumOfReplicates(_, _, _)
SumOfReplicates(k, t, g) ==
    IF k = 0 THEN 0 ELSE replicates[k][t][g] + SumOfReplicates(k - 1, t, g)

\* C9: under both termination policies simulate runs n_sims replicates and
\* returns the element-wise sum of their trajectories divided by n_sims and the
\* list of their n_sims terminal timesteps (each n_timestep - 1 under the fixed
\* horizon); it does not fail on a replicate run_abm returned.
C9_Simulate ==
    /\ exc # ValueErrorShape
    /\ (pc = "sim_ret") =>
         /\ Len(replicates) = pop.n_sims
         /\ Len(ret.fixation_time) = pop.n_sims
         /\ Fixed => \A k \in 1..pop.n_sims : ret.fixation_time[k] = pop.n_timestep - 1
         /\ \A t \in 0..(pop.n_timestep - 1) : \A g \in Genotypes(pop.n_genotype) :
              ret.avg_counts[t][g] = Frac(SumOfReplicates(pop.n_sims, t, g), pop.n_sims)

\* what holds of the calls of simulate that return
SimulateOnReturn ==
    (pc = "sim_ret") =>
         /\ Len(replicates) = pop.n_sims
         /\ Len(ret.fixation_time) = pop.n_sims
         /\ Fixed => \A k \in 1..pop.n_sims : ret.fixation_time[k] = pop.n_timestep - 1
         /\ \A t \in 0..(pop.n_timestep - 1) : \A g \in Genotypes(pop.n_genotype) :
              ret.avg_counts[t][g] = Frac(SumOfReplicates(pop.n_sims, t, g), pop.n_sims)

\* C16: in stop-condition mode the not-reached error is raised only when the
\* row just computed is not at fixation; at fixation run_abm returns normally,
\* also on the step that brings the timestep counter to n_timestep.
C16_RaisedOnlyWithoutFixation ==
    (pop.stop_condition /\ pc = "raised" /\ exc = StopNotReached) =>
        ArgMax(counts[mm]) # env.fittest

\* what decides the raise: the timestep counter alone
RaisedAtHorizon ==
    (pop.stop_condition /\ calls # <<>> /\ Rows(counts) = mm + 1 /\ abm = NoAbm) =>
        ((pc = "raised" /\ exc = StopNotReached) <=> (mm >= pop.n_timestep))

\* C14: the replicates of simulate share no mutable state: run_abm changes no
\* attribute of the Population (simulate alone stores the average in counts,
\* when it returns), and every replicate starts as the first one did, from
\* timestep 0, the same mutation matrix and init_counts in row 0.
C14_ReplicatesIndependent ==
    [][/\ [pop' EXCEPT !.counts = pop.counts] = pop
       /\ (pc' # "sim_ret") => (pop' = pop)
       /\ (pc = "sim_loop" /\ pc' = "run_loop") =>
             /\ mm' = 0
             /\ calls' = <<>>
             /\ counts'[0] = pop.init_counts
             /\ (i > 0) => (P' = P)
       /\ (pc' = "run_ret") => (ret'.counts[0] = pop.init_counts)]_vars

C14_Witness ==
    /\ pc = "run_loop"
    /\ i = 1
    /\ Len(replicates) = 1
    /\ replicates[1][Rows(replicates[1]) - 1] # pop.init_counts
    /\ mm = 0
    /\ calls = <<>>

\* C28: in stop-condition mode run_abm makes at least one update step, also
\* when init_counts is a fixation already; the timestep counter goes up by one
\* per step; and on normal return the trajectory has terminal timestep + 1 rows,
\* row 0 being init_counts and row k+1 the result of the step applied to row k.
C28_StopConditionTrajectory ==
    (pop.stop_condition /\ pc \in {"run_loop", "abm_loop", "abm_ret", "run_ret"}) =>
        /\ mm = Len(SelectSeq(calls, LAMBDA c : c.out # <<>>))
        /\ \A k \in 1..Len(calls) : calls[k].mm = k - 1
        /\ (pc = "run_ret") =>
              /\ ret.mm >= 1
              /\ ret.mm = Len(calls)
              /\ Rows(ret.counts) = ret.mm + 1
              /\ ret.counts[0] = pop.init_counts
              /\ \A k \in 1..Len(calls) :
                   /\ calls[k].input = ret.counts[k - 1]
                   /\ calls[k].out = ret.counts[k]

C28_Witness ==
    /\ pc = "run_ret"
    /\ pop.stop_condition
    /\ ArgMax(pop.init_counts) = env.fittest
    /\ ret.mm = 1
    /\ ret.counts[1] # ret.counts[0]

\* C27: fixation is never reported for an extinct population: whenever
\* check_stop_cond returns true, the fittest genotype at max_dose has a strictly
\* positive count, strictly above the count of every other genotype.
C27_FixationOfLivingPopulation ==
    (pc = "run_ret" /\ pop.stop_condition) =>
        LET counts_t == ret.counts[ret.mm]
        IN  /\ counts_t[env.fittest] > 0
            /\ \A g \in DOMAIN counts_t : (g # env.fittest) => (counts_t[g] < counts_t[env.fittest])

\* what a true stop condition does say: no genotype has more cells than the
\* fittest one, and none before it in the order of the genotypes has as many
FixationIsFirstMaximum ==
    (pc = "run_ret" /\ pop.stop_condition) =>
        LET counts_t == ret.counts[ret.mm]
        IN  /\ \A g \in DOMAIN counts_t : counts_t[g] <= counts_t[env.fittest]
            /\ \A g \in DOMAIN counts_t : (g < env.fittest) => (counts_t[g] < counts_t[env.fittest])

\* -------------------------------------------------- Experiment construction
\* Longest curve_types list and longest sweep list given to an Experiment.
MaxList == 2

\* Experiment.__init__, lines 43-47
allowed_types == {"linear", "constant", "heaviside", "pharm", "pulsed"}

\* Experiment.__init__, lines 50-58
allowed_experiments ==
    {"inoculant-survival", "dose-survival", "drug-regimen", "equilibrium-time",
     "dose-entropy", "rate-survival", "bottleneck", "ramp_up_down", "rate_survival_lhs"}

TypeError == "TypeError: 'NoneType' object"

IndexError == "IndexError: list index out of range"

CurveTypeNotRecognized == "Exception: One or more curve types is not recognized."

ExperimentNotRecognized == "Exception: Experiment type not recognized."

\* the sequences over S of length at most n
SeqsUpTo(S, n) == UNION { [1..k -> S] : k \in 0..n }

\* values given for curve_types: a list, or a value that is not a list
\* ("None" is None)
CurveTypeValues == {"None", "linear", "pulsed", "trapezoid"}

CurveTypeArgs ==
    { [list |-> TRUE, val |-> l] : l \in SeqsUpTo(CurveTypeValues, MaxList) }
    \cup { [list |-> FALSE, val |-> <<v>>] : v \in {"None", "linear", "trapezoid"} }

\* values given for the swept list (prob_drops, slopes or eq_times); <<>> with
\* given = FALSE is None
SweepArgs ==
    { [given |-> FALSE, val |-> <<>>] }
    \cup { [given |-> TRUE, val |-> l] : l \in { <<1>>, <<1, 2>> } }

ExperimentArgs ==
    [curve_types : CurveTypeArgs,
     experiment_type : allowed_experiments \cup {"None", "dose-response"},
     sweep : SweepArgs]

\* the Population a constructor call or a copy-and-reset of the template makes,
\* by the keywords that tell it from the others
Pop(curve_type, param, value) == [curve_type |-> curve_type, param |-> param, value |-> value]

\* lines 119-135 and 141-156: one Population per curve type and dose (or
\* inoculant); max_doses and inoculants are left to their defaults [1] and [0]
PerCurveType(cts, param, values) ==
    LET n == Len(values)
    IN  [k \in 1..(Len(cts) * n) |->
            Pop(cts[((k - 1) \div n) + 1], param, values[((k - 1) % n) + 1])]

\* lines 158-248: the populations of the template experiments, one per value of
\* the swept list
PerSweep(curve_type, param, values) ==
    [k \in 1..Len(values) |-> Pop(curve_type, param, values[k])]

Experiment_new(args) ==
    [args |-> args, made |-> 0, attrs |-> {}, curve_types |-> <<>>,
     experiment_type |-> "None", populations |-> <<>>]

\* Experiment.__init__, lines 40-71: root_path, then the checks of curve_types
\* and experiment_type. The result: the exception raised ("" when none) and the
\* list curve_types is from there on.
Experiment_check(args) ==
    LET curve_types == args.curve_types.val
    IN  IF curve_types = <<>> THEN [raised |-> IndexError, curve_types |-> curve_types]
        ELSE IF /\ curve_types[1] # "None"
                /\ \E k \in 1..Len(curve_types) : curve_types[k] \notin allowed_types
        THEN [raised |-> CurveTypeNotRecognized, curve_types |-> curve_types]
        ELSE IF /\ args.experiment_type # "None"
                /\ args.experiment_type \notin allowed_experiments
        THEN [raised |-> ExperimentNotRecognized, curve_types |-> curve_types]
        ELSE [raised |-> "", curve_types |-> curve_types]

ExperimentCheck ==
    /\ pc = "exp_new"
    /\ LET r == Experiment_check(exper.args)
       IN  /\ exper' = [exper EXCEPT !.attrs = {"root_path"}]
           /\ pc' = IF r.raised # "" THEN "raised" ELSE "exp_checked"
           /\ exc' = r.raised
    /\ UNCHANGED <<env, kwargs, pop, P, nb, abm, counts, mm, calls, avg_counts,
                   fixation_time, i, ret, replicates>>

\* the attributes lines 73-117 set in every experiment
CommonAttrs ==
    {"root_path", "curve_types", "max_doses", "inoculants", "n_sims",
     "population_options", "populations", "figures", "experiment_type", "ramp"}

\* Experiment.__init__, lines 73-248: the attributes, and the Populations of
\* the experiment type
ExperimentBuild ==
    /\ pc = "exp_checked"
    /\ LET a   == exper.args
           cts == IF a.curve_types.val[1] = "None" THEN <<"constant">> ELSE a.curve_types.val
           et  == IF a.experiment_type = "None" THEN "dose-survival" ELSE a.experiment_type
           e0  == [exper EXCEPT !.attrs = CommonAttrs, !.curve_types = cts,
                                !.experiment_type = et]
           swept == et \in {"drug-regimen", "equilibrium-time", "rate-survival",
                            "rate_survival_lhs"}
           param == IF et = "drug-regimen" THEN "prob_drop"
                    ELSE IF et = "equilibrium-time" THEN "dwell_time" ELSE "k_abs"
           template == IF et \in {"drug-regimen", "equilibrium-time"} THEN "pulsed" ELSE "pharm"
       IN  IF swept /\ ~a.sweep.given
           THEN \* prob_drops[0] and slopes[0], or the loop over eq_times, of None
                /\ exper' = [e0 EXCEPT !.made = IF et = "equilibrium-time" THEN 1 ELSE 0,
                                       !.attrs = @ \cup (IF et = "drug-regimen" THEN {"prob_drops"}
                                                         ELSE IF et = "equilibrium-time" THEN {"eq_times"}
                                                         ELSE {"slopes"})]
                /\ pc' = "raised"
                /\ exc' = TypeError
           ELSE /\ exper' =
                     IF swept
                     THEN [e0 EXCEPT !.made = 1,
                                     !.populations = PerSweep(template, param, a.sweep.val),
                                     !.attrs = @ \cup (IF et = "drug-regimen" THEN {"prob_drops", "n_survive"}
                                                       ELSE IF et = "equilibrium-time" THEN {"eq_times"}
                                                       ELSE {"slopes"})]
                     ELSE IF et = "dose-survival"
                     THEN [e0 EXCEPT !.made = Len(cts),
                                     !.populations = PerCurveType(cts, "max_dose", <<1>>),
                                     !.attrs = @ \cup {"n_survive", "perc_survive"}]
                     ELSE IF et = "inoculant-survival"
                     THEN [e0 EXCEPT !.made = Len(cts),
                                     !.populations = PerCurveType(cts, "init_counts", <<0>>),
                                     !.attrs = @ \cup {"n_survive", "perc_survive"}]
                     ELSE IF et = "dose-entropy"
                     THEN [e0 EXCEPT !.made = 1,
                                     !.populations = <<Pop(cts[1], "max_dose", 1)>>,
                                     !.attrs = @ \cup {"entropy_results"}]
                     ELSE IF et = "ramp_up_down"
                     THEN [e0 EXCEPT !.made = 2,
                                     !.attrs = @ \cup {"p_landscape", "p_seascape",
                                                       "null_seascape_dose", "null_seascape_method",
                                                       "first_dose", "second_dose", "third_dose",
                                                       "transition_times"}]
                     ELSE e0
                /\ pc' = "exp_built"
                /\ exc' = ""
    /\ UNCHANGED <<env, kwargs, pop, P, nb, abm, counts, mm, calls, avg_counts,
                   fixation_time, i, ret, replicates>>

InitExp ==
    /\ env \in { [lib_genotypes |-> n, fittest |-> 0] : n \in LibGenotypeCounts }
    /\ kwargs = <<>>
    /\ pop = <<>>
    /\ pc = "exp_new"
    /\ exc = ""
    /\ P = <<>>
    /\ nb = NoCall
    /\ abm = NoAbm
    /\ counts = <<>>
    /\ mm = 0
    /\ calls = <<>>
    /\ avg_counts = <<>>
    /\ fixation_time = <<>>
    /\ i = 0
    /\ ret = <<>>
    /\ replicates = <<>>
    /\ exper \in { Experiment_new(a) : a \in ExperimentArgs }

NextExp == ExperimentCheck \/ ExperimentBuild

SpecExp == InitExp /\ [][NextExp]_vars

\* ------------------------------------------------- properties: Experiment
\* the curve_types argument holds a value that is neither None nor a defined
\* curve type, or experiment_type is given and is not a defined experiment
InvalidExperimentArgs ==
    \/ \E k \in 1..Len(exper.args.curve_types.val) :
         exper.args.curve_types.val[k] \notin (allowed_types \cup {"None"})
    \/ exper.args.experiment_type \notin (allowed_experiments \cup {"None"})

\* C12: an Experiment given an undefined curve type or experiment type raises
\* before any Population is constructed and before any attribute other than
\* root_path is set, whatever the first element of the curve_types list is.
C12_InvalidArgsRejected ==
    InvalidExperimentArgs =>
        /\ pc \in {"exp_new", "raised"}
        /\ exper.made = 0
        /\ exper.attrs \subseteq {"root_path"}

\* what holds when the first element of curve_types is not None
InvalidArgsRejectedFirstGiven ==
    (InvalidExperimentArgs /\ exper.args.curve_types.val # <<>>
        /\ exper.args.curve_types.val[1] # "None") =>
        /\ pc \in {"exp_new", "raised"}
        /\ exper.made = 0
        /\ exper.attrs \subseteq {"root_path"}

\* ------------------------------------------------- reset_drug_conc_curve
\* Most calls of reset_drug_conc_curve on one population.
MaxResets == 2

\* the attributes of the population followed here: its __dict__ as a function
\* from attribute names to values. drug_curve and impulses are not among the
\* attributes the constructor sets.
ResetAttrs == {"n_timestep", "counts", "init_counts", "prob_drop", "k_abs", "dwell_time"}

\* keywords given to reset_drug_conc_curve: attributes of the population, and
\* names that may be no attribute of it
ResetKeys == {"prob_drop", "k_abs", "n_timestep", "colour", "drug_curve"}

ResetKwargs == UNION { [K -> {1, 2}] : K \in SUBSET ResetKeys }

\* the curves pharm.gen_curves may return (the generator is external)
Curves == {"curve_a", "curve_b"}

update_all(d, kw) == [k \in (DOMAIN d) \cup (DOMAIN kw) |-> IF k \in DOMAIN kw THEN kw[k] ELSE d[k]]

\* lines 787-791: for every attribute whose name equals a keyword, the
\* attribute takes the keyword's value
update_matching(d, kw) == [k \in DOMAIN d |-> IF k \in DOMAIN kw THEN kw[k] ELSE d[k]]

\* Population.set_drug_curve: drug_curve and impulses are assigned the two
\* parts of what gen_curves returns (call tells the calls of gen_curves apart)
set_drug_curve(d, curve, call) ==
    [k \in (DOMAIN d) \cup {"drug_curve", "impulses"} |->
        IF k = "drug_curve" THEN [curve |-> curve, part |-> 0, call |-> call]
        ELSE IF k = "impulses" THEN [curve |-> curve, part |-> 1, call |-> call]
        ELSE d[k]]

\* Population.reset_drug_conc_curve(**kwargs)
reset_drug_conc_curve(d, kw, curve, call) == set_drug_curve(update_matching(d, kw), curve, call)

CallReset ==
    /\ pc \in {"ready", "reset_ret"}
    /\ i < MaxResets
    /\ \E kw \in ResetKwargs, curve \in Curves :
         /\ kwargs' = kw
         /\ pop' = reset_drug_conc_curve(pop, kw, curve, i + 1)
    /\ i' = i + 1
    /\ pc' = "reset_ret"
    /\ UNCHANGED <<env, exc, P, nb, abm, counts, mm, calls, avg_counts, fixation_time,
                   ret, replicates, exper>>

InitReset ==
    /\ env \in { [lib_genotypes |-> n, fittest |-> 0] : n \in LibGenotypeCounts }
    /\ kwargs = <<>>
    /\ pop = [k \in ResetAttrs |-> 0]
    /\ pc = "ready"
    /\ exc = ""
    /\ P = <<>>
    /\ nb = NoCall
    /\ abm = NoAbm
    /\ counts = <<>>
    /\ mm = 0
    /\ calls = <<>>
    /\ avg_counts = <<>>
    /\ fixation_time = <<>>
    /\ i = 0
    /\ ret = <<>>
    /\ replicates = <<>>
    /\ exper = NoExperiment

NextReset == CallReset

SpecReset == InitReset /\ [][NextReset]_vars

\* ------------------------------------------ properties: reset_drug_conc_curve
\* C15: reset_drug_conc_curve changes only the existing attributes named by a
\* keyword, which take the keyword's value, and drug_curve and impulses, which
\* hold a newly generated curve; every other attribute keeps its value, and a
\* keyword that names no attribute creates none.
C15_ResetFrame ==
    [][(pc' = "reset_ret") =>
          /\ DOMAIN pop' = (DOMAIN pop) \cup {"drug_curve", "impulses"}
          /\ \A k \in (DOMAIN pop) \ {"drug_curve", "impulses"} :
                pop'[k] = IF k \in DOMAIN kwargs' THEN kwargs'[k] ELSE pop[k]
          /\ pop'["drug_curve"].call = i' /\ pop'["drug_curve"].part = 0
          /\ pop'["impulses"].call = i' /\ pop'["impulses"].part = 1
          /\ pop'["impulses"].curve = pop'["drug_curve"].curve]_vars

C15_Witness ==
    /\ pc = "reset_ret"
    /\ i = MaxResets
    /\ {"colour", "k_abs", "drug_curve"} \subseteq DOMAIN kwargs
    /\ pop["k_abs"] = kwargs["k_abs"]
    /\ pop["prob_drop"] # 0
    /\ "prob_drop" \notin DOMAIN kwargs

\* ---------------------------------- the mutation phase on large genotype spaces
\* Allele count of the large genotype space (2^9 = 512 genotypes, more than an
\* 8-bit index holds).
LargeAllele == 9
\* Most mutants drawn from one genotype's daughters.
MaxMutants == 2

\* the genotype spaces of the populations whose mutation phase is followed
MutKwargs ==
    { [n_allele |-> na, n_genotype |-> Pow2(na), n_timestep |-> 2] :
        na \in (1..MaxAllele) \cup {LargeAllele} }

\* the source genotypes followed: all of a small space; of the large one the
\* first and the last genotype and those around index 256
MutSources(N) ==
    IF N <= 256 THEN Genotypes(N) ELSE {0, 255, 256, N - 1}

RECURSIVE SumRange(_, _, _)
\* the sum of f over lo..hi, by halves
SumRange(f, lo, hi) ==
    IF lo > hi THEN 0
    ELSE IF lo = hi THEN f[lo]
    ELSE LET mid == (lo + hi) \div 2 IN SumRange(f, lo, mid) + SumRange(f, mid + 1, hi)

\* an entry of the matrix of lines 490-496: the Hamming distance of the two
\* genotypes, zeroed when above 1
cut_distance(p, from, to) ==
    LET dist == hammingDistance(int_to_binary(p, from), int_to_binary(p, to)).val
    IN  IF dist > 1 THEN 0 ELSE dist

\* column g of the matrix random_mutations returns, p=P[:,genotype]: every
\* entry [h, g] is the zeroed distance divided by the sum of row g (line 497)
Column(p, N, g) ==
    LET row_sum == SumRange([nn \in Genotypes(N) |-> cut_distance(p, g, nn)], 0, N - 1)
    IN  [h \in Genotypes(N) |-> Frac(cut_distance(p, h, g), row_sum)]

\* the destinations of positive probability in a column
ColumnSupport(col) == { h \in DOMAIN col : col[h].d # 0 /\ col[h].n > 0 }

\* lines 618-630 for one source genotype: n_mut mutants are drawn, their
\* destinations chosen with the probabilities of column genotype of P, the
\* destination indices cast to uint8, and the mutants counted into counts_t
\* (added is np.bincount(mutations, minlength=n_genotype), kept where non-zero)
MutateOne ==
    /\ pc = "idle"
    /\ \E g \in MutSources(pop.n_genotype), n_mut \in 1..MaxMutants :
         LET dests == ColumnSupport(Column(pop, pop.n_genotype, g))
         IN  \E d \in Spreads(dests, n_mut) :
               abm' = [active |-> FALSE, genotype |-> g, n_mut |-> n_mut,
                       chosen |-> { h \in dests : d[h] > 0 },
                       added |-> { k \in Genotypes(pop.n_genotype) : Bincount(d, k) > 0 },
                       total |-> SumRange([k \in Genotypes(pop.n_genotype) |-> Bincount(d, k)],
                                          0, pop.n_genotype - 1)]
    /\ pc' = "mutated"
    /\ UNCHANGED <<env, kwargs, pop, exc, P, nb, counts, mm, calls, avg_counts,
                   fixation_time, i, ret, replicates, exper>>

InitMut ==
    /\ env \in { [lib_genotypes |-> n, fittest |-> 0] : n \in LibGenotypeCounts }
    /\ kwargs \in MutKwargs
    /\ pop = initialize_population(PopParams(kwargs), env.lib_genotypes)
    /\ pc = "idle"
    /\ exc = ""
    /\ P = <<>>
    /\ nb = NoCall
    /\ abm = NoAbm
    /\ counts = <<>>
    /\ mm = 0
    /\ calls = <<>>
    /\ avg_counts = <<>>
    /\ fixation_time = <<>>
    /\ i = 0
    /\ ret = <<>>
    /\ replicates = <<>>
    /\ exper = NoExperiment

NextMut == MutateOne

SpecMut == InitMut /\ [][NextMut]_vars

\* ------------------------------------------- properties: the mutation phase
\* C18: every mutant drawn from the daughters of genotype g is added to the
\* count of a genotype at Hamming distance 1 from g, in every genotype space,
\* those of more than 256 genotypes included.
C18_MutantsGoToNeighbours ==
    (pc = "mutated") =>
        /\ abm.total = abm.n_mut
        /\ \A k \in abm.added : BitDistance(k, abm.genotype, pop.n_allele) = 1

\* what holds in the spaces of at most 256 genotypes, and of the destinations
\* drawn in every space
MutantsGoToNeighboursSmall ==
    (pc = "mutated") =>
        /\ abm.total = abm.n_mut
        /\ \A h \in abm.chosen : BitDistance(h, abm.genotype, pop.n_allele) = 1
        /\ (pop.n_genotype <= 256) => (abm.added = abm.chosen)

\* the column computed for one source genotype is the column of the matrix
\* random_mutations returns
ColumnOfMatrix ==
    (pc = "has_P") =>
        \A g \in Genotypes(pop.n_genotype) :
            /\ Column(pop, pop.n_genotype, g) = [h \in Genotypes(pop.n_genotype) |-> P[h][g]]
            /\ ColumnSupport(Column(pop, pop.n_genotype, g)) = Support(P, g, pop.n_genotype)

\* ------------------------------------------------- Experiment.set_ramp_ud
\* Largest dose, largest ramp length and longest curve of the ramp profiles
\* followed.
MaxDose == 3
MaxRamp == 3
MaxCurve == 6

\* A dose is a real number. The entries of the curve are kept in units of
\* 1/ramp, so that the slope (second_dose - first_dose)/ramp of line 540 is the
\* integer second_dose - first_dose and every sum of a dose and slopes is exact.
Units(e, dose) == dose * e.ramp

\* line 540, in units of 1/ramp
slope(e) == e.second_dose - e.first_dose

\* lines 541-546: the four segment boundaries transition_times[k] -/+ ramp/2,
\* doubled, so that t < times[k] is 2*t < times2(e)[k]
times2(e) ==
    <<2 * e.transition_times[1] - e.ramp, 2 * e.transition_times[1] + e.ramp,
      2 * e.transition_times[2] - e.ramp, 2 * e.transition_times[2] + e.ramp>>

\* the position numpy reads for the index k of an array of n entries: a negative
\* index counts from the end
Index(k, n) == IF k < 0 THEN k + n ELSE k

\* lines 549-559, the entry written at timestep t given the array so far
ramp_entry(e, n, t, drug_curve) ==
    LET times == times2(e)
        back == drug_curve[Index(t - 1, n)]
    IN  IF 2 * t < times[1] THEN Units(e, e.first_dose)
        ELSE IF 2 * t < times[2] THEN back + slope(e)
        ELSE IF 2 * t < times[3] THEN Units(e, e.second_dose)
        ELSE IF 2 * t < times[4] /\ back + slope(e) < Units(e, e.third_dose)
             THEN back + slope(e)
        ELSE Units(e, e.third_dose)

\* the timesteps at which the loop reads drug_curve[t-1]: the second branch,
\* and the condition of the fourth
ramp_reads(e, t) ==
    LET times == times2(e)
    IN  \/ 2 * t >= times[1] /\ 2 * t < times[2]
        \/ 2 * t >= times[2] /\ 2 * t >= times[3] /\ 2 * t < times[4]

RECURSIVE ramp_loop(_, _, _, _)
\* line 548: the loop from timestep t on
ramp_loop(e, n, t, drug_curve) ==
    IF t >= n THEN drug_curve
    ELSE ramp_loop(e, n, t + 1, [drug_curve EXCEPT ![t] = ramp_entry(e, n, t, drug_curve)])

\* set_ramp_ud(p): the array of n_timestep zeros of line 539, filled by the loop
set_ramp_ud(e, p) == ramp_loop(e, p.n_timestep, 0, [t \in 0..(p.n_timestep - 1) |-> 0])

\* a call of set_ramp_ud(p): p.drug_curve is assigned and the curve returned
CallSetRampUd ==
    /\ pc = "ramp_new"
    /\ LET drug_curve == set_ramp_ud(exper, pop)
       IN  /\ pop' = [n_timestep |-> pop.n_timestep, drug_curve |-> drug_curve]
           /\ ret' = drug_curve
    /\ pc' = "ramp_ret"
    /\ UNCHANGED <<env, kwargs, exc, P, nb, abm, counts, mm, calls, avg_counts,
                   fixation_time, i, replicates, exper>>

\* the Experiment attributes set_ramp_ud reads (lines 104, 125-141), and the
\* horizon of the population it is called on
InitRamp ==
    /\ env \in { [lib_genotypes |-> n, fittest |-> 0] : n \in LibGenotypeCounts }
    /\ kwargs = <<>>
    /\ \E n \in 1..MaxCurve : pop = [n_timestep |-> n]
    /\ pc = "ramp_new"
    /\ exc = ""
    /\ P = <<>>
    /\ nb = NoCall
    /\ abm = NoAbm
    /\ counts = <<>>
    /\ mm = 0
    /\ calls = <<>>
    /\ avg_counts = <<>>
    /\ fixation_time = <<>>
    /\ i = 0
    /\ ret = <<>>
    /\ replicates = <<>>
    /\ exper \in [made : {1}, first_dose : 0..MaxDose, second_dose : 0..MaxDose,
                  third_dose : 0..MaxDose, ramp : 1..MaxRamp,
                  transition_times : [1..2 -> 0..MaxCurve]]

NextRamp == CallSetRampUd

SpecRamp == InitRamp /\ [][NextRamp]_vars

\* ------------------------------------------------- properties: set_ramp_ud
\* the three holds of the profile, and the ramp up from the second timestep on
RampUdHolds ==
    (pc = "ramp_ret" /\ exper.transition_times[1] < exper.transition_times[2]) =>
        LET times == times2(exper)
        IN  /\ DOMAIN ret = 0..(pop.n_timestep - 1)
            /\ pop.drug_curve = ret
            /\ \A t \in DOMAIN ret :
                 /\ (2 * t < times[1]) => ret[t] = Units(exper, exper.first_dose)
                 /\ (2 * t >= times[2] /\ 2 * t < times[3]) =>
                        ret[t] = Units(exper, exper.second_dose)
                 /\ (2 * t >= times[4]) => ret[t] = Units(exper, exper.third_dose)
                 /\ (2 * t >= times[1] /\ 2 * t < times[2] /\ t >= 1) =>
                        ret[t] = ret[t - 1] + slope(exper)

\* C21: the curve has n_timestep entries; with T0 < T1 it is first_dose before
\* T0 - buffer, second_dose from T0 + buffer to T1 - buffer, third_dose from
\* T1 + buffer on, and in the ramp-up window every entry is the previous entry
\* plus (second_dose - first_dose)/ramp.
C21_RampUpDown ==
    (pc = "ramp_ret" /\ exper.transition_times[1] < exper.transition_times[2]) =>
        LET times == times2(exper)
        IN  /\ DOMAIN ret = 0..(pop.n_timestep - 1)
            /\ \A t \in DOMAIN ret :
                 /\ (2 * t < times[1]) => ret[t] = Units(exper, exper.first_dose)
                 /\ (2 * t >= times[2] /\ 2 * t < times[3]) =>
                        ret[t] = Units(exper, exper.second_dose)
                 /\ (2 * t >= times[4]) => ret[t] = Units(exper, exper.third_dose)
                 /\ (2 * t >= times[1] /\ 2 * t < times[2]) =>
                        /\ (t - 1) \in DOMAIN ret
                        /\ ret[t] = ret[t - 1] + slope(exper)

\* the timesteps of the ramp-down window that lie on the curve
RampDownWindow ==
    { t \in DOMAIN ret : 2 * t >= times2(exper)[3] /\ 2 * t < times2(exper)[4] }

\* C22: with first_dose < third_dose < second_dose (and a ramp up that starts
\* after timestep 0 and ends before the ramp down starts) the ramp-down window
\* is a linear ramp down: its entries decrease by one constant decrement per
\* timestep, and (for a ramp of two timesteps or more) the curve does not fall
\* from second_dose to third_dose within one timestep.
C22_LinearRampDown ==
    (/\ pc = "ramp_ret"
     /\ exper.first_dose < exper.third_dose /\ exper.third_dose < exper.second_dose
     /\ ~ ramp_reads(exper, 0)
     /\ exper.transition_times[1] + exper.ramp <= exper.transition_times[2]) =>
        /\ \E dec \in 1..(MaxDose * MaxRamp) :
             \A t \in RampDownWindow : (t - 1) \in DOMAIN ret => ret[t] = ret[t - 1] - dec
        /\ (exper.ramp >= 2) =>
             \A t \in RampDownWindow :
                 ~ ( /\ (t - 1) \in DOMAIN ret
                     /\ ret[t - 1] = Units(exper, exper.second_dose)
                     /\ ret[t] = Units(exper, exper.third_dose) )

\* what the ramp-down window holds instead: after a hold at second_dose every
\* entry of the window is third_dose
RampDownIsAStep ==
    (/\ pc = "ramp_ret"
     /\ exper.first_dose < exper.third_dose /\ exper.third_dose < exper.second_dose
     /\ exper.transition_times[1] + exper.ramp <= exper.transition_times[2]) =>
        \A t \in RampDownWindow :
            (t >= 1 /\ 2 * (t - 1) >= times2(exper)[2]) => ret[t] = Units(exper, exper.third_dose)

\* C29: with ramp > 0 and 0 <= first_dose <= third_dose <= second_dose, for
\* every transition_times, every entry of the curve lies in
\* [first_dose, second_dose] and is computed from entries of earlier timesteps
\* only.
C29_RampWithinDoses ==
    (/\ pc = "ramp_ret"
     /\ exper.first_dose <= exper.third_dose /\ exper.third_dose <= exper.second_dose) =>
        \A t \in DOMAIN ret :
            /\ ret[t] >= Units(exper, exper.first_dose)
            /\ ret[t] <= Units(exper, exper.second_dose)
            /\ ramp_reads(exper, t) => Index(t - 1, pop.n_timestep) < t

\* what holds of the profiles whose ramps start after timestep 0
RampWithinDosesAfterStart ==
    (/\ pc = "ramp_ret"
     /\ exper.first_dose <= exper.third_dose /\ exper.third_dose <= exper.second_dose
     /\ ~ ramp_reads(exper, 0)) =>
        \A t \in DOMAIN ret :
            /\ ret[t] >= Units(exper, exper.first_dose)
            /\ ret[t] <= Units(exper, exper.second_dose)
            /\ ramp_reads(exper, t) => Index(t - 1, pop.n_timestep) < t

\* ------------------------------------------- the parameter-sweep experiments
\* the experiments that build their populations from one template, with the
\* parameter each of them sweeps
SweepExperiments == {"drug-regimen", "equilibrium-time", "rate-survival", "rate_survival_lhs"}

swept_param(experiment_type) ==
    IF experiment_type = "drug-regimen" THEN "prob_drop"
    ELSE IF experiment_type = "equilibrium-time" THEN "dwell_time"
    ELSE "k_abs"

\* the non-empty lists given for prob_drops, slopes or eq_times
SweepLists == UNION { [1..k -> {1, 2}] : k \in 1..MaxList }

\* the arguments of the Experiment: population_template is <<>> for None,
\* otherwise the attributes of the Population given, which may have had its
\* drug curve set before (call 0)
SweepTemplates ==
    { [k \in ResetAttrs |-> IF k \in {"prob_drop", "k_abs", "dwell_time"} THEN v ELSE 0] :
        v \in {0, 3} }
    \cup { set_drug_curve([k \in ResetAttrs |-> 0], c, 0) : c \in Curves }

SweepKwargs ==
    [experiment_type : SweepExperiments, sweep : SweepLists,
     population_template : SweepTemplates \cup {<<>>}]

copy_copy_same_object(objects, src) == [objects |-> objects, id |-> src]

\* copy.copy(p0) on an object without __copy__: a new object whose __dict__ holds
\* the same values as that of p0. objects is the sequence of the Population
\* objects made so far, an object's identity its position in it.
copy_copy(objects, src) ==
    [objects |-> Append(objects, objects[src]), id |-> Len(objects) + 1]

\* lines 178-186, 197-210, 228-239: the swept list is kept, and the template
\* p0 is the Population given or a new one; the constructor is given the first
\* swept value in drug-regimen and rate-survival and no dwell_time in
\* equilibrium-time
SweepTemplate ==
    /\ pc = "sweep_new"
    /\ IF kwargs.population_template = <<>>
       THEN pop' = << [k \in ResetAttrs |->
                         IF /\ k = swept_param(kwargs.experiment_type)
                            /\ kwargs.experiment_type # "equilibrium-time"
                         THEN kwargs.sweep[1] ELSE 0] >>
       ELSE pop' = pop
    /\ exper' = [exper EXCEPT !.made = IF kwargs.population_template = <<>> THEN 1 ELSE 0,
                              !.sweep = kwargs.sweep, !.p0 = 1]
    /\ i' = 0
    /\ pc' = "sweep_loop"
    /\ UNCHANGED <<env, kwargs, exc, P, nb, abm, counts, mm, calls, avg_counts,
                   fixation_time, ret, replicates>>

\* lines 188-191, 212-215, 241-248: one iteration of the loop over the swept
\* list: the template is copied, the copy's parameter and drug curve are reset,
\* and the copy is appended to self.populations
SweepStep ==
    /\ pc = "sweep_loop"
    /\ i < Len(exper.sweep)
    /\ \E curve \in Curves :
         LET c  == copy_copy(pop, exper.p0)
             kw == [k \in {swept_param(kwargs.experiment_type)} |-> exper.sweep[i + 1]]
         IN  /\ pop' = [c.objects EXCEPT ![c.id] = reset_drug_conc_curve(@, kw, curve, i + 1)]
             /\ exper' = [exper EXCEPT !.populations = Append(@, c.id)]
    /\ i' = i + 1
    /\ pc' = IF i + 1 < Len(exper.sweep) THEN "sweep_loop" ELSE "sweep_built"
    /\ UNCHANGED <<env, kwargs, exc, P, nb, abm, counts, mm, calls, avg_counts,
                   fixation_time, ret, replicates>>

InitSweep ==
    /\ env \in { [lib_genotypes |-> n, fittest |-> 0] : n \in LibGenotypeCounts }
    /\ kwargs \in SweepKwargs
    /\ pop = IF kwargs.population_template = <<>> THEN <<>> ELSE <<kwargs.population_template>>
    /\ pc = "sweep_new"
    /\ exc = ""
    /\ P = <<>>
    /\ nb = NoCall
    /\ abm = NoAbm
    /\ counts = <<>>
    /\ mm = 0
    /\ calls = <<>>
    /\ avg_counts = <<>>
    /\ fixation_time = <<>>
    /\ i = 0
    /\ ret = <<>>
    /\ replicates = <<>>
    /\ exper = [made |-> 0, sweep |-> <<>>, p0 |-> 0, populations |-> <<>>]

NextSweep == SweepTemplate \/ SweepStep

SpecSweep == InitSweep /\ [][NextSweep]_vars

\* ------------------------------- properties: the parameter-sweep experiments
\* the value of the swept parameter the template has before the loop
TemplateValue ==
    IF kwargs.population_template # <<>>
    THEN kwargs.population_template[swept_param(kwargs.experiment_type)]
    ELSE IF kwargs.experiment_type = "equilibrium-time" THEN 0
    ELSE kwargs.sweep[1]

\* C25: in the experiments built from a template the k-th population holds the
\* k-th swept value, at its creation and after every later population is
\* created, with the drug curve generated at its creation; the swept parameter
\* of the template keeps the value it had.
C25_SweepFrame ==
    (pc \in {"sweep_loop", "sweep_built"}) =>
        /\ Len(exper.populations) = i
        /\ (pc = "sweep_built") => (i = Len(kwargs.sweep))
        /\ \A k \in 1..Len(exper.populations) :
             LET q == pop[exper.populations[k]]
             IN  /\ q[swept_param(kwargs.experiment_type)] = kwargs.sweep[k]
                 /\ q["drug_curve"].call = k /\ q["drug_curve"].part = 0
                 /\ q["impulses"].call = k /\ q["impulses"].part = 1
        /\ pop[exper.p0][swept_param(kwargs.experiment_type)] = TemplateValue
        /\ ("drug_curve" \in DOMAIN pop[exper.p0]) =>
              (pop[exper.p0] = kwargs.population_template)

C25_Witness ==
    /\ pc = "sweep_built"
    /\ Len(exper.populations) >= 2
    /\ kwargs.sweep[1] # kwargs.sweep[2]
    /\ kwargs.sweep[Len(kwargs.sweep)] # TemplateValue
    /\ pop[exper.populations[1]]["drug_curve"].curve # pop[exper.populations[2]]["drug_curve"].curve

\* ------------------------------------------------- PopParams construction
\* keywords that name an attribute PopParams gives a default (of those the
\* model follows, the integer ones), and keywords that name none
ParamKeys == {"n_allele", "n_timestep", "max_cells", "n_sims"}

OtherKeys == {"colour", "n_timesteps"}

ParamKwargs == UNION { [K -> {2, 3}] : K \in SUBSET (ParamKeys \cup OtherKeys) }

\* a call of PopParams(**kwargs)
CallPopParams ==
    /\ pc = "params_new"
    /\ pop' = PopParams(kwargs)
    /\ pc' = "params_ret"
    /\ UNCHANGED <<env, kwargs, exc, P, nb, abm, counts, mm, calls, avg_counts,
                   fixation_time, i, ret, replicates, exper>>

InitParams ==
    /\ env \in { [lib_genotypes |-> n, fittest |-> 0] : n \in LibGenotypeCounts }
    /\ kwargs \in ParamKwargs
    /\ pop = <<>>
    /\ pc = "params_new"
    /\ exc = ""
    /\ P = <<>>
    /\ nb = NoCall
    /\ abm = NoAbm
    /\ counts = <<>>
    /\ mm = 0
    /\ calls = <<>>
    /\ avg_counts = <<>>
    /\ fixation_time = <<>>
    /\ i = 0
    /\ ret = <<>>
    /\ replicates = <<>>
    /\ exper = NoExperiment

NextParams == CallPopParams

SpecParams == InitParams /\ [][NextParams]_vars

\* ------------------------------------------ properties: PopParams construction
\* C30: PopParams applies a keyword only when it names an attribute that has a
\* default: such an attribute takes the value passed, every other attribute
\* keeps its default, and a keyword that names no such attribute raises nothing
\* and creates no attribute.
C30_KeywordsOverrideDefaults ==
    (pc # "params_new") =>
        /\ pc = "params_ret" /\ exc = ""
        /\ DOMAIN pop = DOMAIN PopParamsDefaults
        /\ \A k \in DOMAIN pop :
             pop[k] = IF k \in DOMAIN kwargs THEN kwargs[k] ELSE PopParamsDefaults[k]

C30_Witness ==
    /\ pc = "params_ret"
    /\ DOMAIN kwargs = {"n_timestep", "n_sims", "n_timesteps"}
    /\ pop["n_timestep"] = kwargs["n_timestep"] /\ pop["n_timestep"] # PopParamsDefaults["n_timestep"]
    /\ pop["max_cells"] = PopParamsDefaults["max_cells"]
    /\ "n_timesteps" \notin DOMAIN pop

====
